---- MODULE Spec2Model ----
(***************************************************************************)
(* Personal_Blog_app (src/app.py): a Flask application over four SQLite    *)
(* tables (User, Post, FriendRequest, Notification) and a cookie session.  *)
(* Every route handler is one action; a handler that queries more than     *)
(* once, or queries and then commits, has in addition its steps between    *)
(* which the threaded server runs other requests (the _begin, _step and    *)
(* _commit actions).  The tables are sequences of rows in rowid order.     *)
(***************************************************************************)
EXTENDS Integers, Sequences, FiniteSets, TLC

VARIABLES users, posts, friend_requests, notifications, session, last, inflight

vars == <<users, posts, friend_requests, notifications, session, last, inflight>>

(***************************************************************************)
(* Bounds of the model.                                                    *)
(***************************************************************************)
\* rows of the Post table
MaxPosts == 1
\* rows of the FriendRequest table
MaxRequests == 2
\* rows of the Notification table
MaxNotes == 3
\* readings of the clock, datetime.utcnow(): 0 .. MaxTime
MaxTime == 1
\* handler invocations in flight at once (interleaved specification)
MaxInflight == 2
\* rows of the Notification table when the friend engine is served by
\* several threads
MaxRaceNotes == 4

(***************************************************************************)
(* Inputs of the requests.  Text is a sequence of one-character strings.   *)
(***************************************************************************)
Usernames == { <<"a", "b">>, <<"b">> }
Passwords == { "pw1", "pw2" }
Salts == { "s1", "s2" }
\* the title and content fields of the form of /create and /edit
PostForms == { <<"t1", "c1">>, <<"t2", "c2">> }
Queries == { <<>>, <<"a">>, <<"A">>, <<"b", "a">>, <<"_">>, <<"%">> }
\* what datetime.utcnow() may return when a row is stamped
Times == 0 .. MaxTime

\* names of uploaded files: "../m.p", "..", whose secured name is empty, and
\* "a", vertical tab (0x0b), "b", whose secured name is "a_b"
Filenames == { <<".", ".", "/", "m", ".", "p">>, <<".", ".">>, <<"a", "", "b">> }

\* session.get('user_id') of a session without 'user_id'
None == -1

(***************************************************************************)
(* Rows and primary keys.                                                  *)
(***************************************************************************)
RECURSIVE MaxId(_)
MaxId(rows) == IF rows = <<>> THEN 0
               ELSE LET m == MaxId(Tail(rows))
                    IN IF Head(rows).id > m THEN Head(rows).id ELSE m

\* INTEGER PRIMARY KEY of SQLite: one more than the largest rowid in the table
NextId(rows) == MaxId(rows) + 1

\* Model.query.get(id): the row with that primary key (callers test Has first)
Has(rows, id) == \E i \in 1..Len(rows) : rows[i].id = id
Get(rows, id) == rows[CHOOSE i \in 1..Len(rows) : rows[i].id = id]

\* User.query.filter_by(username=username).first()
HasUsername(username) == \E i \in 1..Len(users) : users[i].username = username
UserByName(username) == users[CHOOSE i \in 1..Len(users) : users[i].username = username]

(***************************************************************************)
(* werkzeug.security: the stored password is a salted one-way hash; the    *)
(* hash is a free term over the salt and the password (collision free).    *)
(***************************************************************************)
Digest(salt, password) == <<"pbkdf2", salt, password>>

generate_password_hash(password, salt) == [salt |-> salt, hash |-> Digest(salt, password)]

\* mutant: the password is not compared
check_password_hash_any(pwhash, password) == pwhash.hash # <<>>

check_password_hash(pwhash, password) == Digest(pwhash.salt, password) = pwhash.hash

(***************************************************************************)
(* SQL LIKE of SQLite, as User.username.contains(query) issues it:         *)
(* username LIKE '%' || query || '%', with no ESCAPE clause.  "%" matches  *)
(* any run of characters, "_" any one character, letters match without     *)
(* regard to ASCII case.                                                   *)
(***************************************************************************)
UpperCase ==
    <<"A", "B", "C", "D", "E", "F", "G", "H", "I", "J", "K", "L", "M", "N", "O", "P", "Q",
      "R", "S", "T", "U", "V", "W", "X", "Y", "Z">>
LowerCase ==
    <<"a", "b", "c", "d", "e", "f", "g", "h", "i", "j", "k", "l", "m", "n", "o", "p", "q",
      "r", "s", "t", "u", "v", "w", "x", "y", "z">>

\* what LIKE compares a character as: the 26 ASCII capitals as their small
\* letters, every other character as itself
Fold(c) ==
    IF \E i \in 1..Len(UpperCase) : UpperCase[i] = c
    THEN LowerCase[CHOOSE i \in 1..Len(UpperCase) : UpperCase[i] = c]
    ELSE c

RECURSIVE Like(_, _)
Like(pattern, s) ==
    IF pattern = <<>> THEN s = <<>>
    ELSE IF Head(pattern) = "%"
         THEN Like(Tail(pattern), s) \/ (s # <<>> /\ Like(pattern, Tail(s)))
         ELSE /\ s # <<>>
              /\ (Head(pattern) = "_" \/ Fold(Head(pattern)) = Fold(Head(s)))
              /\ Like(Tail(pattern), Tail(s))

contains(username, query) == Like(<<"%">> \o query \o <<"%">>, username)

(***************************************************************************)
(* View directives: what a handler returns.                                *)
(***************************************************************************)
NoData == <<>>

redirect(endpoint, flashed) ==
    [kind |-> "redirect", to |-> endpoint, flash |-> flashed, data |-> NoData]

render_template(template, flashed, data) ==
    [kind |-> "render", to |-> template, flash |-> flashed, data |-> data]

abort(code) == [kind |-> "abort", to |-> code, flash |-> "", data |-> NoData]

\* the request just answered: route, method, path argument, form, and the
\* user id its session carried, with the directive returned
Served(route, method, arg, form, user, resp) ==
    [route |-> route, method |-> method, arg |-> arg, form |-> form,
     user |-> user, resp |-> resp]

\* a route without a path argument
NoArg == None
NoForm == <<>>

(***************************************************************************)
(* Initial state: db.create_all() on an empty database, no session cookie. *)
(***************************************************************************)
Init ==
    /\ users = <<>>
    /\ posts = <<>>
    /\ friend_requests = <<>>
    /\ notifications = <<>>
    /\ session = None
    /\ last = Served("start", "GET", NoArg, NoForm, None, abort("none"))
    /\ inflight = <<>>

(***************************************************************************)
(* /register                                                               *)
(***************************************************************************)
\* a nullable column holds NULL or one value
Null == <<>>
Value(v) == <<v>>

\* User(username=..., password=...): photo, wallpaper and bio start as NULL
\* (created_at is written here and never read)
NewUser(username, pwhash) ==
    [id |-> NextId(users), username |-> username, password |-> pwhash,
     photo |-> Null, wallpaper |-> Null, bio |-> Null]

\* mutant: User.username without unique=True
insert_user_unchecked(username, pwhash) ==
    [ok |-> TRUE, rows |-> Append(users, NewUser(username, pwhash))]

\* db.session.add(user); db.session.commit(): the INSERT, refused by the
\* UNIQUE constraint of User.username when a row has that username
\* (IntegrityError, nothing is written)
insert_user(username, pwhash) ==
    IF HasUsername(username)
    THEN [ok |-> FALSE, rows |-> users]
    ELSE [ok |-> TRUE, rows |-> Append(users, NewUser(username, pwhash))]

\* what register returns once the commit is over
registered(ok) ==
    IF ok THEN redirect("login", "Registration successful. Please log in.")
    ELSE abort("500")

register(method, username, password, salt) ==
    /\ IF method = "POST"
       THEN IF HasUsername(username)
            THEN /\ users' = users
                 /\ last' = Served("register", method, NoArg, <<username, password>>, session,
                                   redirect("register", "Username already exists."))
            ELSE LET done == insert_user(username, generate_password_hash(password, salt))
                 IN /\ users' = done.rows
                    /\ last' = Served("register", method, NoArg, <<username, password>>,
                                      session, registered(done.ok))
       ELSE /\ users' = users
            /\ last' = Served("register", method, NoArg, NoForm, session,
                              render_template("register.html", "", NoData))
    /\ UNCHANGED <<posts, friend_requests, notifications, session, inflight>>

\* Requests served by different threads interleave between a handler's query
\* and its commit.  register up to its query (lines 78-84): a POST that finds
\* the username answers at once, one that does not goes on to its commit.
register_begin(username, password, salt) ==
    /\ Len(inflight) < MaxInflight
    /\ IF HasUsername(username)
       THEN /\ inflight' = inflight
            /\ last' = Served("register", "POST", NoArg, <<username, password>>, session,
                              redirect("register", "Username already exists."))
       ELSE /\ inflight' = Append(inflight,
                    [route |-> "register", form |-> <<username, password>>, user |-> session,
                     row |-> [username |-> username,
                              password |-> generate_password_hash(password, salt)]])
            /\ last' = last
    /\ UNCHANGED <<users, posts, friend_requests, notifications, session>>

Remove(seq, i) == SubSeq(seq, 1, i - 1) \o SubSeq(seq, i + 1, Len(seq))

\* flash() changes the session, so the answer of a handler that flashes sets
\* the session cookie anew, to the user id the request arrived with.  The
\* cookie the next request carries is that one when the answer reaches the
\* browser that sends it, and the one it was when another browser sent the
\* request.
save_session(user) == {session, user}

\* register from db.session.add to its return (lines 85-88)
register_commit(i) ==
    /\ i \in 1..Len(inflight)
    /\ inflight[i].route = "register"
    /\ LET r == inflight[i]
           done == insert_user(r.row.username, r.row.password)
       IN /\ users' = done.rows
          /\ last' = Served("register", "POST", NoArg, r.form, r.user, registered(done.ok))
          \* the IntegrityError leaves before flash (line 87)
          /\ IF done.ok THEN session' \in save_session(r.user) ELSE session' = session
    /\ inflight' = Remove(inflight, i)
    /\ UNCHANGED <<posts, friend_requests, notifications>>

(***************************************************************************)
(* /login and /logout                                                      *)
(***************************************************************************)
login(method, username, password) ==
    /\ IF method = "POST"
       THEN IF HasUsername(username)
               /\ check_password_hash(UserByName(username).password, password)
            THEN /\ session' = UserByName(username).id
                 /\ last' = Served("login", method, NoArg, <<username, password>>, session,
                                   redirect("home", "Login successful."))
            ELSE /\ session' = session
                 /\ last' = Served("login", method, NoArg, <<username, password>>, session,
                                   render_template("login.html", "Invalid credentials.", NoData))
       ELSE /\ session' = session
            /\ last' = Served("login", method, NoArg, NoForm, session,
                              render_template("login.html", "", NoData))
    /\ UNCHANGED <<users, posts, friend_requests, notifications, inflight>>

logout ==
    /\ session' = None
    /\ last' = Served("logout", "GET", NoArg, NoForm, session, redirect("login", "Logged out."))
    /\ UNCHANGED <<users, posts, friend_requests, notifications, inflight>>

(***************************************************************************)
(* /  (home feed)                                                          *)
(***************************************************************************)
RECURSIVE Insert(_, _)
\* place a post in a list ordered by timestamp, newest first; rows with equal
\* timestamps keep rowid order
Insert(post, sorted) ==
    IF sorted = <<>> THEN <<post>>
    ELSE IF Head(sorted).timestamp >= post.timestamp
         THEN <<Head(sorted)>> \o Insert(post, Tail(sorted))
         ELSE <<post>> \o sorted

RECURSIVE ByRecency(_)
\* Post.query.order_by(Post.timestamp.desc()).all()
ByRecency(rows) ==
    IF rows = <<>> THEN <<>>
    ELSE Insert(rows[Len(rows)], ByRecency(SubSeq(rows, 1, Len(rows) - 1)))

home ==
    /\ IF session = None
       THEN last' = Served("home", "GET", NoArg, NoForm, session, redirect("login", ""))
       ELSE last' = Served("home", "GET", NoArg, NoForm, session,
                           render_template("home.html", "", ByRecency(posts)))
    /\ UNCHANGED <<users, posts, friend_requests, notifications, session, inflight>>

(***************************************************************************)
(* /create, /edit/<id>, /delete/<id>                                       *)
(***************************************************************************)
NewPost(title, content, user_id, utcnow) ==
    [id |-> NextId(posts), title |-> title, content |-> content,
     user_id |-> user_id, timestamp |-> utcnow]

create(method, title, content, utcnow) ==
    /\ (session # None /\ method = "POST") => Len(posts) < MaxPosts
    /\ IF session = None
       THEN /\ posts' = posts
            /\ last' = Served("create", method, NoArg, NoForm, session, redirect("login", ""))
       ELSE IF method = "POST"
            THEN /\ posts' = Append(posts, NewPost(title, content, session, utcnow))
                 /\ last' = Served("create", method, NoArg, <<title, content>>, session,
                                   redirect("home", ""))
            ELSE /\ posts' = posts
                 /\ last' = Served("create", method, NoArg, NoForm, session,
                                   render_template("create.html", "", NoData))
    /\ UNCHANGED <<users, friend_requests, notifications, session, inflight>>

\* mutant: a request without a session passes as well
owns_or_anonymous(post, user_id) == user_id = post.user_id \/ user_id = None

\* session.get('user_id') == post.user_id, the test of edit and delete
owns(post, user_id) == user_id = post.user_id

\* post.title = ...; post.content = ...  on the row with this id
SetText(rows, id, title, content) ==
    [i \in 1..Len(rows) |->
        IF rows[i].id = id
        THEN [rows[i] EXCEPT !.title = title, !.content = content]
        ELSE rows[i]]

edit(id, method, title, content) ==
    /\ IF ~Has(posts, id)
       THEN /\ posts' = posts
            /\ last' = Served("edit", method, id, NoForm, session, abort("404"))
       ELSE IF ~owns(Get(posts, id), session)
            THEN /\ posts' = posts
                 /\ last' = Served("edit", method, id, NoForm, session, redirect("home", ""))
            ELSE IF method = "POST"
                 THEN /\ posts' = SetText(posts, id, title, content)
                      /\ last' = Served("edit", method, id, <<title, content>>, session,
                                        redirect("home", ""))
                 ELSE /\ posts' = posts
                      /\ last' = Served("edit", method, id, NoForm, session,
                                        render_template("edit.html", "", Get(posts, id)))
    /\ UNCHANGED <<users, friend_requests, notifications, session, inflight>>

\* db.session.delete(row)
Delete(rows, id) == SelectSeq(rows, LAMBDA r : r.id # id)

delete(id) ==
    /\ IF ~Has(posts, id)
       THEN /\ posts' = posts
            /\ last' = Served("delete", "GET", id, NoForm, session, abort("404"))
       ELSE /\ IF owns(Get(posts, id), session)
               THEN posts' = Delete(posts, id)
               ELSE posts' = posts
            /\ last' = Served("delete", "GET", id, NoForm, session, redirect("home", ""))
    /\ UNCHANGED <<users, friend_requests, notifications, session, inflight>>

(***************************************************************************)
(* edit and delete served by several threads: the load with the owner test *)
(* and the commit are separate steps.  The commit writes by primary key:   *)
(* UPDATE / DELETE ... WHERE post.id = ?, whatever row has this id by then.*)
(***************************************************************************)
\* an edit POST or a delete that passed the owner test on the post it loaded
\* and has not committed yet
Loaded(route, id, user, post, form) ==
    [route |-> route, arg |-> id, user |-> user, post |-> post, form |-> form]

\* edit up to the owner test (lines 125-127)
edit_begin(id, title, content) ==
    /\ Len(inflight) < MaxInflight
    /\ IF ~Has(posts, id)
       THEN /\ inflight' = inflight
            /\ last' = Served("edit", "POST", id, NoForm, session, abort("404"))
       ELSE IF ~owns(Get(posts, id), session)
            THEN /\ inflight' = inflight
                 /\ last' = Served("edit", "POST", id, NoForm, session, redirect("home", ""))
            ELSE /\ inflight' = Append(inflight,
                      Loaded("edit", id, session, Get(posts, id), <<title, content>>))
                 /\ last' = last
    /\ UNCHANGED <<users, posts, friend_requests, notifications, session>>

\* the UPDATE a flush issues for the loaded post: the columns whose assigned
\* value differs from the loaded one, on the row that has the post's id now
UpdateText(rows, post, title, content) ==
    [i \in 1..Len(rows) |->
        IF rows[i].id = post.id
        THEN [rows[i] EXCEPT !.title = IF title # post.title THEN title ELSE @,
                             !.content = IF content # post.content THEN content ELSE @]
        ELSE rows[i]]

\* edit from post.title = ... to its return (lines 129-132): no UPDATE when no
\* column changed, StaleDataError when the UPDATE matches no row
edit_commit(i) ==
    /\ i \in 1..Len(inflight)
    /\ inflight[i].route = "edit"
    /\ LET r == inflight[i]
       IN IF r.form[1] = r.post.title /\ r.form[2] = r.post.content
          THEN /\ posts' = posts
               /\ last' = Served("edit", "POST", r.arg, r.form, r.user, redirect("home", ""))
          ELSE IF ~Has(posts, r.arg)
               THEN /\ posts' = posts
                    /\ last' = Served("edit", "POST", r.arg, r.form, r.user, abort("500"))
               ELSE /\ posts' = UpdateText(posts, r.post, r.form[1], r.form[2])
                    /\ last' = Served("edit", "POST", r.arg, r.form, r.user,
                                      redirect("home", ""))
    /\ inflight' = Remove(inflight, i)
    /\ UNCHANGED <<users, friend_requests, notifications, session>>

\* delete up to the owner test (lines 137-138)
delete_begin(id) ==
    /\ Len(inflight) < MaxInflight
    /\ IF ~Has(posts, id)
       THEN /\ inflight' = inflight
            /\ last' = Served("delete", "GET", id, NoForm, session, abort("404"))
       ELSE IF ~owns(Get(posts, id), session)
            THEN /\ inflight' = inflight
                 /\ last' = Served("delete", "GET", id, NoForm, session, redirect("home", ""))
            ELSE /\ inflight' = Append(inflight,
                      Loaded("delete", id, session, Get(posts, id), NoForm))
                 /\ last' = last
    /\ UNCHANGED <<users, posts, friend_requests, notifications, session>>

\* delete from db.session.delete to its return (lines 139-141): a DELETE that
\* matches no row is a warning only
delete_commit(i) ==
    /\ i \in 1..Len(inflight)
    /\ inflight[i].route = "delete"
    /\ LET r == inflight[i]
       IN /\ posts' = Delete(posts, r.arg)
          /\ last' = Served("delete", "GET", r.arg, NoForm, r.user, redirect("home", ""))
    /\ inflight' = Remove(inflight, i)
    /\ UNCHANGED <<users, friend_requests, notifications, session>>

(***************************************************************************)
(* /send_request/<receiver_id>, /accept_request/<id>, /reject_request/<id> *)
(***************************************************************************)
\* mutant: the duplicate check filtered on status='pending' as well
existing_request_pending(sender_id, receiver_id) ==
    \E i \in 1..Len(friend_requests) :
        /\ friend_requests[i].sender_id = sender_id
        /\ friend_requests[i].receiver_id = receiver_id
        /\ friend_requests[i].status = "pending"

\* mutant: the duplicate check looks at both directions
existing_request_either(sender_id, receiver_id) ==
    \E i \in 1..Len(friend_requests) :
        \/ /\ friend_requests[i].sender_id = sender_id
           /\ friend_requests[i].receiver_id = receiver_id
        \/ /\ friend_requests[i].sender_id = receiver_id
           /\ friend_requests[i].receiver_id = sender_id

\* FriendRequest.query.filter_by(sender_id=..., receiver_id=...).first()
existing_request(sender_id, receiver_id) ==
    \E i \in 1..Len(friend_requests) :
        /\ friend_requests[i].sender_id = sender_id
        /\ friend_requests[i].receiver_id = receiver_id

NewRequest(sender_id, receiver_id) ==
    [id |-> NextId(friend_requests), sender_id |-> sender_id,
     receiver_id |-> receiver_id, status |-> "pending"]

\* Notification(user_id=..., message=f"{username}<text>")
NewNote(user_id, username, text, utcnow) ==
    [id |-> NextId(notifications), user_id |-> user_id,
     message |-> username \o <<text>>, timestamp |-> utcnow]

send_request(receiver_id, utcnow) ==
    /\ (session # None /\ ~existing_request(session, receiver_id)) =>
            (Len(friend_requests) < MaxRequests /\ Len(notifications) < MaxNotes)
    /\ IF session = None
       THEN /\ UNCHANGED <<friend_requests, notifications>>
            /\ last' = Served("send_request", "POST", receiver_id, NoForm, session,
                              redirect("login", ""))
       ELSE IF ~existing_request(session, receiver_id)
            THEN /\ friend_requests' = Append(friend_requests, NewRequest(session, receiver_id))
                 /\ notifications' = Append(notifications,
                        NewNote(receiver_id, Get(users, session).username,
                                " sent you a friend request!", utcnow))
                 /\ last' = Served("send_request", "POST", receiver_id, NoForm, session,
                                   redirect("search_users", "Friend request sent."))
            ELSE /\ UNCHANGED <<friend_requests, notifications>>
                 /\ last' = Served("send_request", "POST", receiver_id, NoForm, session,
                                   redirect("search_users", "Friend request already sent."))
    /\ UNCHANGED <<users, posts, session, inflight>>

\* mutant: a decided request is put back to pending
SetStatus_reopen(rows, id, status) ==
    [i \in 1..Len(rows) |->
        IF rows[i].id = id
        THEN [rows[i] EXCEPT !.status = IF @ = "pending" THEN status ELSE "pending"]
        ELSE rows[i]]

\* mutant: a reversal guard, only a pending request takes a new status
SetStatus_guarded(rows, id, status) ==
    [i \in 1..Len(rows) |->
        IF rows[i].id = id /\ rows[i].status = "pending"
        THEN [rows[i] EXCEPT !.status = status]
        ELSE rows[i]]

\* fr.status = status  on the row with this id
SetStatus(rows, id, status) ==
    [i \in 1..Len(rows) |->
        IF rows[i].id = id THEN [rows[i] EXCEPT !.status = status] ELSE rows[i]]

\* mutant: the receiver test is left out
is_receiver_unchecked(fr, user_id) == TRUE

\* mutant: either party of the request may decide it
is_receiver_or_sender(fr, user_id) == fr.receiver_id = user_id \/ fr.sender_id = user_id

\* fr.receiver_id == session.get('user_id'), the test accept_request and
\* reject_request make before they write
is_receiver(fr, user_id) == fr.receiver_id = user_id

accept_request(request_id, utcnow) ==
    /\ (Has(friend_requests, request_id)
        /\ is_receiver(Get(friend_requests, request_id), session)) =>
            Len(notifications) < MaxNotes
    /\ IF ~Has(friend_requests, request_id)
       THEN /\ UNCHANGED <<friend_requests, notifications>>
            /\ last' = Served("accept_request", "GET", request_id, NoForm, session, abort("404"))
       ELSE LET fr == Get(friend_requests, request_id)
            IN IF ~is_receiver(fr, session)
               THEN /\ UNCHANGED <<friend_requests, notifications>>
                    /\ last' = Served("accept_request", "GET", request_id, NoForm, session,
                                      redirect("friend_requests", ""))
               ELSE IF ~Has(users, fr.receiver_id)
                    \* User.query.get(...) is None: AttributeError, nothing committed
                    THEN /\ UNCHANGED <<friend_requests, notifications>>
                         /\ last' = Served("accept_request", "GET", request_id, NoForm, session,
                                           abort("500"))
                    ELSE /\ friend_requests' =
                                SetStatus(friend_requests, request_id, "accepted")
                         /\ notifications' = Append(notifications,
                                NewNote(fr.sender_id, Get(users, fr.receiver_id).username,
                                        " accepted your friend request!", utcnow))
                         /\ last' = Served("accept_request", "GET", request_id, NoForm, session,
                                           redirect("friend_requests", "Friend request accepted."))
    /\ UNCHANGED <<users, posts, session, inflight>>

reject_request(request_id, utcnow) ==
    /\ (Has(friend_requests, request_id)
        /\ is_receiver(Get(friend_requests, request_id), session)) =>
            Len(notifications) < MaxNotes
    /\ IF ~Has(friend_requests, request_id)
       THEN /\ UNCHANGED <<friend_requests, notifications>>
            /\ last' = Served("reject_request", "GET", request_id, NoForm, session, abort("404"))
       ELSE LET fr == Get(friend_requests, request_id)
            IN IF ~is_receiver(fr, session)
               THEN /\ UNCHANGED <<friend_requests, notifications>>
                    /\ last' = Served("reject_request", "GET", request_id, NoForm, session,
                                      redirect("friend_requests", ""))
               ELSE IF ~Has(users, fr.receiver_id)
                    \* User.query.get(...) is None: AttributeError, nothing committed
                    THEN /\ UNCHANGED <<friend_requests, notifications>>
                         /\ last' = Served("reject_request", "GET", request_id, NoForm, session,
                                           abort("500"))
                    ELSE /\ friend_requests' =
                                SetStatus(friend_requests, request_id, "rejected")
                         /\ notifications' = Append(notifications,
                                NewNote(fr.sender_id, Get(users, fr.receiver_id).username,
                                        " rejected your friend request.", utcnow))
                         /\ last' = Served("reject_request", "GET", request_id, NoForm, session,
                                           redirect("friend_requests", "Friend request rejected."))
    /\ UNCHANGED <<users, posts, session, inflight>>

(***************************************************************************)
(* The friend engine served by several threads: a handler's queries and    *)
(* its db.session.commit() are separate steps, other requests run between. *)
(***************************************************************************)
\* a request that passed its checks and has not committed yet: the session's
\* user at the time, the path argument, and the row it loaded (NULL for
\* send_request, which found no row)
InFlight(route, arg, user, fr) == [route |-> route, arg |-> arg, user |-> user, fr |-> fr]

\* send_request up to the existence check (lines 151-153)
send_request_begin(receiver_id) ==
    /\ Len(inflight) < MaxInflight
    /\ IF session = None
       THEN /\ inflight' = inflight
            /\ last' = Served("send_request", "POST", receiver_id, NoForm, session,
                              redirect("login", ""))
       ELSE IF existing_request(session, receiver_id)
            THEN /\ inflight' = inflight
                 /\ last' = Served("send_request", "POST", receiver_id, NoForm, session,
                                   redirect("search_users", "Friend request already sent."))
            ELSE /\ inflight' = Append(inflight,
                                       InFlight("send_request", receiver_id, session, Null))
                 /\ last' = last
    /\ UNCHANGED <<users, posts, friend_requests, notifications, session>>

\* send_request from the two db.session.add to its return (lines 154-163):
\* one transaction inserts the FriendRequest and the Notification
send_request_commit(i, utcnow) ==
    /\ i \in 1..Len(inflight)
    /\ inflight[i].route = "send_request"
    /\ Len(friend_requests) < MaxRequests
    /\ Len(notifications) < MaxRaceNotes
    /\ LET r == inflight[i]
       IN /\ friend_requests' = Append(friend_requests, NewRequest(r.user, r.arg))
          /\ notifications' = Append(notifications,
                 NewNote(r.arg, Get(users, r.user).username,
                         " sent you a friend request!", utcnow))
          /\ last' = Served("send_request", "POST", r.arg, NoForm, r.user,
                            redirect("search_users", "Friend request sent."))
          /\ session' \in save_session(r.user)
    /\ inflight' = Remove(inflight, i)
    /\ UNCHANGED <<users, posts>>

\* accept_request / reject_request up to the receiver test (lines 167-169,
\* 178-180): the row is loaded, 404 and a foreign request answer at once
decide_begin(route, request_id) ==
    /\ Len(inflight) < MaxInflight
    /\ IF ~Has(friend_requests, request_id)
       THEN /\ inflight' = inflight
            /\ last' = Served(route, "GET", request_id, NoForm, session, abort("404"))
       ELSE LET fr == Get(friend_requests, request_id)
            IN IF ~is_receiver(fr, session)
               THEN /\ inflight' = inflight
                    /\ last' = Served(route, "GET", request_id, NoForm, session,
                                      redirect("friend_requests", ""))
               ELSE /\ inflight' = Append(inflight, InFlight(route, request_id, session, fr))
                    /\ last' = last
    /\ UNCHANGED <<users, posts, friend_requests, notifications, session>>

accept_request_begin(request_id) == decide_begin("accept_request", request_id)

reject_request_begin(request_id) == decide_begin("reject_request", request_id)

\* the UPDATE a flush issues for the loaded request: none when the assigned
\* status is the one that was loaded, else on the row that has its id now
UpdateStatus(rows, fr, status) ==
    IF status = fr.status THEN rows ELSE SetStatus(rows, fr.id, status)

\* mutant: the status is committed, the Notification is not
decide_status_only(fr, status, text, utcnow) ==
    [friend_requests |-> UpdateStatus(friend_requests, fr, status),
     notifications |-> notifications]

\* mutant: the commit is refused when the row changed since it was loaded
decide_if_unchanged(fr, status, text, utcnow) ==
    IF Get(friend_requests, fr.id) = fr
    THEN [friend_requests |-> UpdateStatus(friend_requests, fr, status),
          notifications |-> Append(notifications,
              NewNote(fr.sender_id, Get(users, fr.receiver_id).username, text, utcnow))]
    ELSE [friend_requests |-> friend_requests, notifications |-> notifications]

\* what the transaction of accept_request / reject_request writes for the row
\* fr it loaded: fr.status = status and the Notification to the sender
decide(fr, status, text, utcnow) ==
    [friend_requests |-> UpdateStatus(friend_requests, fr, status),
     notifications |-> Append(notifications,
         NewNote(fr.sender_id, Get(users, fr.receiver_id).username, text, utcnow))]

\* accept_request / reject_request from fr.status = ... to the return
\* (lines 170-174, 181-185)
decide_commit(i, route, status, text, flashed, utcnow) ==
    /\ i \in 1..Len(inflight)
    /\ inflight[i].route = route
    /\ Len(notifications) < MaxRaceNotes
    /\ LET r == inflight[i]
       IN IF ~Has(users, r.fr.receiver_id)
          \* User.query.get(...) is None: AttributeError, nothing committed
          THEN /\ UNCHANGED <<friend_requests, notifications, session>>
               /\ last' = Served(route, "GET", r.arg, NoForm, r.user, abort("500"))
          ELSE LET written == decide(r.fr, status, text, utcnow)
               IN /\ friend_requests' = written.friend_requests
                  /\ notifications' = written.notifications
                  /\ last' = Served(route, "GET", r.arg, NoForm, r.user,
                                    redirect("friend_requests", flashed))
                  /\ session' \in save_session(r.user)
    /\ inflight' = Remove(inflight, i)
    /\ UNCHANGED <<users, posts>>

accept_request_commit(i, utcnow) ==
    decide_commit(i, "accept_request", "accepted", " accepted your friend request!",
                  "Friend request accepted.", utcnow)

reject_request_commit(i, utcnow) ==
    decide_commit(i, "reject_request", "rejected", " rejected your friend request.",
                  "Friend request rejected.", utcnow)

(***************************************************************************)
(* /friends, /friend_requests, /search                                     *)
(***************************************************************************)
\* mutant: only the requests the user sent are looked at
friend_ids_sent(user_id) ==
    { friend_requests[i].receiver_id : i \in { j \in 1..Len(friend_requests) :
          friend_requests[j].sender_id = user_id /\ friend_requests[j].status = "accepted" } }

\* friend_ids of friends(): receivers of the accepted requests the user sent
\* and senders of the accepted requests the user received
friend_ids(user_id) ==
    { friend_requests[i].receiver_id : i \in { j \in 1..Len(friend_requests) :
          friend_requests[j].sender_id = user_id /\ friend_requests[j].status = "accepted" } }
    \cup
    { friend_requests[i].sender_id : i \in { j \in 1..Len(friend_requests) :
          friend_requests[j].receiver_id = user_id /\ friend_requests[j].status = "accepted" } }

\* User.friends_count: the accepted rows the user sent plus the accepted
\* rows the user received
friends_count(user_id) ==
    Cardinality({ j \in 1..Len(friend_requests) :
        friend_requests[j].sender_id = user_id /\ friend_requests[j].status = "accepted" })
    + Cardinality({ j \in 1..Len(friend_requests) :
        friend_requests[j].receiver_id = user_id /\ friend_requests[j].status = "accepted" })

\* User.query.filter(User.id.in_(friend_ids)).all()
friends_of(user_id) == SelectSeq(users, LAMBDA u : u.id \in friend_ids(user_id))

friends ==
    /\ IF session = None
       THEN last' = Served("friends", "GET", NoArg, NoForm, session, redirect("login", ""))
       ELSE last' = Served("friends", "GET", NoArg, NoForm, session,
                           render_template("friends.html", "", friends_of(session)))
    /\ UNCHANGED <<users, posts, friend_requests, notifications, session, inflight>>

\* FriendRequest.query.filter_by(receiver_id=..., status='pending').all()
pending_for(user_id) ==
    SelectSeq(friend_requests, LAMBDA r : r.receiver_id = user_id /\ r.status = "pending")

friend_requests_page ==
    /\ IF session = None
       THEN last' = Served("friend_requests", "GET", NoArg, NoForm, session,
                           redirect("login", ""))
       ELSE last' = Served("friend_requests", "GET", NoArg, NoForm, session,
                           render_template("friend_requests.html", "", pending_for(session)))
    /\ UNCHANGED <<users, posts, friend_requests, notifications, session, inflight>>

\* excluded_ids of search_users(): the user, the receivers of the requests the
\* user sent and the senders of the requests the user received
excluded_ids(user_id) ==
    {user_id}
    \cup { friend_requests[i].receiver_id : i \in { j \in 1..Len(friend_requests) :
               friend_requests[j].sender_id = user_id } }
    \cup { friend_requests[i].sender_id : i \in { j \in 1..Len(friend_requests) :
               friend_requests[j].receiver_id = user_id } }

\* User.query.filter(User.username.contains(query), ~User.id.in_(excluded_ids)).all()
search_results(user_id, query) ==
    SelectSeq(users, LAMBDA u : contains(u.username, query) /\ u.id \notin excluded_ids(user_id))

search_users(method, query) ==
    /\ IF session = None
       THEN last' = Served("search_users", method, NoArg, NoForm, session,
                           redirect("login", ""))
       ELSE IF method = "POST"
            THEN last' = Served("search_users", method, NoArg, query, session,
                                render_template("search.html", "", search_results(session, query)))
            ELSE last' = Served("search_users", method, NoArg, NoForm, session,
                                render_template("search.html", "", <<>>))
    /\ UNCHANGED <<users, posts, friend_requests, notifications, session, inflight>>

(***************************************************************************)
(* /profile, /edit_profile                                                 *)
(***************************************************************************)
\* .limit(5) of the notification queries
NotificationLimit == 5

\* Notification.query.filter_by(user_id=...).order_by(timestamp.desc()).limit(5)
latest_notifications(user_id) ==
    LET mine == ByRecency(SelectSeq(notifications, LAMBDA n : n.user_id = user_id))
    IN IF Len(mine) <= NotificationLimit THEN mine ELSE SubSeq(mine, 1, NotificationLimit)

\* Post.query.filter_by(user_id=user.id).count()
posts_count(user_id) == Len(SelectSeq(posts, LAMBDA p : p.user_id = user_id))

profile ==
    /\ IF session = None
       THEN last' = Served("profile", "GET", NoArg, NoForm, session, redirect("login", ""))
       ELSE last' = Served("profile", "GET", NoArg, NoForm, session,
                           render_template("profile.html", "",
                               [user |-> Get(users, session),
                                posts_count |-> posts_count(session),
                                friends_count |-> friends_count(session),
                                latest_notifications |-> latest_notifications(session)]))
    /\ UNCHANGED <<users, posts, friend_requests, notifications, session, inflight>>

\* characters secure_filename keeps: [A-Za-z0-9_.-]
SafeChars ==
    {"a", "b", "c", "d", "e", "f", "g", "h", "i", "j", "k", "l", "m", "n", "o", "p", "q",
     "r", "s", "t", "u", "v", "w", "x", "y", "z",
     "A", "B", "C", "D", "E", "F", "G", "H", "I", "J", "K", "L", "M", "N", "O", "P", "Q",
     "R", "S", "T", "U", "V", "W", "X", "Y", "Z",
     "0", "1", "2", "3", "4", "5", "6", "7", "8", "9", "_", ".", "-"}

\* os.sep, which secure_filename replaces by a blank, and the ASCII white
\* space str.split() cuts at: blank, tab, line feed, carriage return, form
\* feed, then (written as the characters themselves) the vertical tab 0x0b
\* and the separators 0x1c, 0x1d, 0x1e, 0x1f
Blanks ==
    {"/", " ", "\t", "\n", "\r", "\f", "", "", "", "", ""}

RECURSIVE StripLeft(_, _)
StripLeft(text, chars) ==
    IF text # <<>> /\ Head(text) \in chars THEN StripLeft(Tail(text), chars) ELSE text

RECURSIVE StripRight(_, _)
StripRight(text, chars) ==
    IF text # <<>> /\ text[Len(text)] \in chars
    THEN StripRight(SubSeq(text, 1, Len(text) - 1), chars)
    ELSE text

RECURSIVE JoinWords(_)
\* "_".join(text.split()) for a text without blanks at its ends
JoinWords(text) ==
    IF text = <<>> THEN <<>>
    ELSE IF Head(text) \in Blanks
         THEN <<"_">> \o JoinWords(StripLeft(text, Blanks))
         ELSE <<Head(text)>> \o JoinWords(Tail(text))

\* werkzeug.utils.secure_filename on an ASCII name (a sequence of characters):
\* path separators become blanks, the words are joined by "_", the characters
\* outside [A-Za-z0-9_.-] are removed, "." and "_" are stripped at both ends
secure_filename(filename) ==
    LET joined == JoinWords(StripRight(StripLeft(filename, Blanks), Blanks))
        kept == SelectSeq(joined, LAMBDA c : c \in SafeChars)
    IN StripRight(StripLeft(kept, {".", "_"}), {".", "_"})

\* the longest file name the file system of the upload folder takes (bytes)
NameMax == 255

\* file.save(os.path.join(UPLOAD_FOLDER, name)) raises for an uploaded file
\* whose secured name is empty, the path is the folder itself
\* (IsADirectoryError), and for one whose secured name is longer than the
\* file system takes (OSError, File name too long).  The files in the folder
\* are not part of the state.
save_fails(file) ==
    /\ file # <<>>
    /\ \/ secure_filename(file) = <<>>
       \/ Len(secure_filename(file)) > NameMax

\* user.bio, user.photo, user.wallpaper assignments of edit_profile; a file
\* field left empty keeps the column
SetProfile(rows, id, bio, photo, wallpaper) ==
    [i \in 1..Len(rows) |->
        IF rows[i].id = id
        THEN [rows[i] EXCEPT
                !.bio = Value(bio),
                !.photo = IF photo # <<>> THEN Value(secure_filename(photo)) ELSE @,
                !.wallpaper = IF wallpaper # <<>> THEN Value(secure_filename(wallpaper)) ELSE @]
        ELSE rows[i]]

edit_profile(method, bio, photo, wallpaper) ==
    /\ IF session = None
       THEN /\ users' = users
            /\ last' = Served("edit_profile", method, NoArg, NoForm, session,
                              redirect("login", ""))
       ELSE IF method = "POST"
            THEN IF save_fails(photo) \/ save_fails(wallpaper)
                 \* the exception leaves the handler, nothing is committed
                 THEN /\ users' = users
                      /\ last' = Served("edit_profile", method, NoArg,
                                        <<bio, photo, wallpaper>>, session, abort("500"))
                 ELSE /\ users' = SetProfile(users, session, bio, photo, wallpaper)
                      /\ last' = Served("edit_profile", method, NoArg,
                                        <<bio, photo, wallpaper>>, session,
                                        redirect("profile", "Profile updated!"))
            ELSE /\ users' = users
                 /\ last' = Served("edit_profile", method, NoArg, NoForm, session,
                                   render_template("edit_profile.html", "", Get(users, session)))
    /\ UNCHANGED <<posts, friend_requests, notifications, session, inflight>>

\* edit_profile served by several threads.  Up to the load of the user row
\* (lines 232-234):
edit_profile_begin(bio, photo, wallpaper) ==
    /\ Len(inflight) < MaxInflight
    /\ IF session = None
       THEN /\ inflight' = inflight
            /\ last' = Served("edit_profile", "POST", NoArg, NoForm, session,
                              redirect("login", ""))
       ELSE /\ inflight' = Append(inflight,
                 [route |-> "edit_profile", user |-> session, row |-> Get(users, session),
                  form |-> <<bio, photo, wallpaper>>])
            /\ last' = last
    /\ UNCHANGED <<users, posts, friend_requests, notifications, session>>

\* the UPDATE a flush issues for the loaded user: the columns whose assigned
\* value differs from the loaded one
UpdateProfile(rows, user, bio, photo, wallpaper) ==
    [i \in 1..Len(rows) |->
        IF rows[i].id = user.id
        THEN [rows[i] EXCEPT
                !.bio = IF Value(bio) # user.bio THEN Value(bio) ELSE @,
                !.photo = IF photo # <<>> /\ Value(secure_filename(photo)) # user.photo
                          THEN Value(secure_filename(photo)) ELSE @,
                !.wallpaper = IF wallpaper # <<>>
                                 /\ Value(secure_filename(wallpaper)) # user.wallpaper
                              THEN Value(secure_filename(wallpaper)) ELSE @]
        ELSE rows[i]]

\* edit_profile from user.bio = ... to its return (lines 236-248)
edit_profile_commit(i) ==
    /\ i \in 1..Len(inflight)
    /\ inflight[i].route = "edit_profile"
    /\ LET r == inflight[i]
       IN IF save_fails(r.form[2]) \/ save_fails(r.form[3])
          THEN /\ users' = users
               /\ session' = session
               /\ last' = Served("edit_profile", "POST", NoArg, r.form, r.user, abort("500"))
          ELSE /\ users' = UpdateProfile(users, r.row, r.form[1], r.form[2], r.form[3])
               /\ session' \in save_session(r.user)
               /\ last' = Served("edit_profile", "POST", NoArg, r.form, r.user,
                                 redirect("profile", "Profile updated!"))
    /\ inflight' = Remove(inflight, i)
    /\ UNCHANGED <<posts, friend_requests, notifications>>

(***************************************************************************)
(* The pages that read with several queries, served by several threads:    *)
(* each query is a step of its own and reads the tables as they are then.  *)
(***************************************************************************)
\* a page between two of its queries: the queries made so far (pc) and what
\* they returned (seen)
Reading(route, user, form, pc, seen) ==
    [route |-> route, user |-> user, form |-> form, pc |-> pc, seen |-> seen]

\* FriendRequest.query.filter_by(sender_id=user_id, status='accepted').all()
accepted_sent(user_id) ==
    SelectSeq(friend_requests, LAMBDA r : r.sender_id = user_id /\ r.status = "accepted")

\* FriendRequest.query.filter_by(receiver_id=user_id, status='accepted').all()
accepted_received(user_id) ==
    SelectSeq(friend_requests, LAMBDA r : r.receiver_id = user_id /\ r.status = "accepted")

\* [f.receiver_id for f in rows], [f.sender_id for f in rows] as sets
Receivers(rows) == { rows[i].receiver_id : i \in 1..Len(rows) }
Senders(rows) == { rows[i].sender_id : i \in 1..Len(rows) }

\* friends up to its first query (lines 189-192)
friends_begin ==
    /\ Len(inflight) < MaxInflight
    /\ IF session = None
       THEN /\ inflight' = inflight
            /\ last' = Served("friends", "GET", NoArg, NoForm, session, redirect("login", ""))
       ELSE /\ inflight' = Append(inflight,
                 Reading("friends", session, NoForm, 1, Receivers(accepted_sent(session))))
            /\ last' = last
    /\ UNCHANGED <<users, posts, friend_requests, notifications, session>>

\* friends: the query of line 193, then the query of line 195 and the return
friends_step(i) ==
    /\ i \in 1..Len(inflight)
    /\ inflight[i].route = "friends"
    /\ LET r == inflight[i]
       IN IF r.pc = 1
          THEN /\ inflight' = [inflight EXCEPT ![i] =
                      Reading("friends", r.user, NoForm, 2,
                              r.seen \cup Senders(accepted_received(r.user)))]
               /\ last' = last
          ELSE /\ inflight' = Remove(inflight, i)
               /\ last' = Served("friends", "GET", NoArg, NoForm, r.user,
                      render_template("friends.html", "",
                          SelectSeq(users, LAMBDA u : u.id \in r.seen)))
    /\ UNCHANGED <<users, posts, friend_requests, notifications, session>>

\* search_users up to its first query (lines 207-214)
search_users_begin(query) ==
    /\ Len(inflight) < MaxInflight
    /\ IF session = None
       THEN /\ inflight' = inflight
            /\ last' = Served("search_users", "POST", NoArg, NoForm, session,
                              redirect("login", ""))
       ELSE /\ inflight' = Append(inflight,
                 Reading("search_users", session, query, 1,
                         {session} \cup Receivers(SelectSeq(friend_requests,
                                           LAMBDA r : r.sender_id = session))))
            /\ last' = last
    /\ UNCHANGED <<users, posts, friend_requests, notifications, session>>

\* search_users: the query of line 215, then the query of line 217 and the
\* return
search_users_step(i) ==
    /\ i \in 1..Len(inflight)
    /\ inflight[i].route = "search_users"
    /\ LET r == inflight[i]
       IN IF r.pc = 1
          THEN /\ inflight' = [inflight EXCEPT ![i] =
                      Reading("search_users", r.user, r.form, 2,
                              r.seen \cup Senders(SelectSeq(friend_requests,
                                              LAMBDA q : q.receiver_id = r.user)))]
               /\ last' = last
          ELSE /\ inflight' = Remove(inflight, i)
               /\ last' = Served("search_users", "POST", NoArg, r.form, r.user,
                      render_template("search.html", "",
                          SelectSeq(users, LAMBDA u : contains(u.username, r.form)
                                                      /\ u.id \notin r.seen)))
    /\ UNCHANGED <<users, posts, friend_requests, notifications, session>>

\* profile up to its first query, User.query.get (lines 222-224)
profile_begin ==
    /\ Len(inflight) < MaxInflight
    /\ IF session = None
       THEN /\ inflight' = inflight
            /\ last' = Served("profile", "GET", NoArg, NoForm, session, redirect("login", ""))
       ELSE /\ inflight' = Append(inflight,
                 Reading("profile", session, NoForm, 1,
                         [user |-> Get(users, session), posts_count |-> 0,
                          friends_count |-> 0]))
            /\ last' = last
    /\ UNCHANGED <<users, posts, friend_requests, notifications, session>>

\* profile: the count of line 225, the two counts of User.friends_count
\* (lines 33 and 34), then the query of line 227 and the return
profile_step(i) ==
    /\ i \in 1..Len(inflight)
    /\ inflight[i].route = "profile"
    /\ LET r == inflight[i]
       IN IF r.pc = 1
          THEN /\ inflight' = [inflight EXCEPT ![i] =
                      Reading("profile", r.user, NoForm, 2,
                              [r.seen EXCEPT !.posts_count = posts_count(r.user)])]
               /\ last' = last
          ELSE IF r.pc = 2
          THEN /\ inflight' = [inflight EXCEPT ![i] =
                      Reading("profile", r.user, NoForm, 3,
                              [r.seen EXCEPT !.friends_count = Len(accepted_sent(r.user))])]
               /\ last' = last
          ELSE IF r.pc = 3
          THEN /\ inflight' = [inflight EXCEPT ![i] =
                      Reading("profile", r.user, NoForm, 4,
                              [r.seen EXCEPT !.friends_count =
                                                 @ + Len(accepted_received(r.user))])]
               /\ last' = last
          ELSE /\ inflight' = Remove(inflight, i)
               /\ last' = Served("profile", "GET", NoArg, NoForm, r.user,
                      render_template("profile.html", "",
                          [user |-> r.seen.user,
                           posts_count |-> r.seen.posts_count,
                           friends_count |-> r.seen.friends_count,
                           latest_notifications |-> latest_notifications(r.user)]))
    /\ UNCHANGED <<users, posts, friend_requests, notifications, session>>

(***************************************************************************)
(* Specifications.  Each takes the requests of one part of the application *)
(* in any order: one handler at a time, or, where the actions are the      *)
(* steps of the handlers, interleaved.                                     *)
(***************************************************************************)
\* path arguments: the ids a table can hold and one it cannot
UserIds == 1 .. (Cardinality(Usernames) + 1)
PostIds == 1 .. (MaxPosts + 1)
RequestIds == 1 .. (MaxRequests + 1)

AuthNext ==
    \/ \E u \in Usernames, p \in Passwords, s \in Salts : register("POST", u, p, s)
    \/ register("GET", <<>>, "", "s1")
    \/ \E u \in Usernames, p \in Passwords : login("POST", u, p)
    \/ login("GET", <<>>, "")
    \/ logout

SpecAuth == Init /\ [][AuthNext]_vars

\* registrations served by several threads at once
RaceNext ==
    \/ \E u \in Usernames, s \in Salts : register_begin(u, "pw1", s)
    \/ \E i \in 1..MaxInflight : register_commit(i)
    \/ \E u \in Usernames, p \in Passwords : login("POST", u, p)
    \/ logout

SpecRace == Init /\ [][RaceNext]_vars

\* the friend engine; every user registers with the same password
FriendNext ==
    \/ \E u \in Usernames : register("POST", u, "pw1", "s1")
    \/ \E u \in Usernames : login("POST", u, "pw1")
    \/ logout
    \/ \E id \in UserIds : send_request(id, 0)
    \/ \E id \in RequestIds : accept_request(id, 0)
    \/ \E id \in RequestIds : reject_request(id, 0)
    \/ friends
    \/ friend_requests_page
    \/ \E q \in Queries : search_users("POST", q)
    \/ search_users("GET", <<>>)

Spec == Init /\ [][FriendNext]_vars

\* the posts of two users, with a friend request to user 2 sent meanwhile
PostNext ==
    \/ \E u \in Usernames : register("POST", u, "pw1", "s1")
    \/ \E u \in Usernames : login("POST", u, "pw1")
    \/ logout
    \/ home
    \/ \E f \in PostForms, at \in Times : create("POST", f[1], f[2], at)
    \/ create("GET", "", "", 0)
    \/ \E id \in PostIds, f \in PostForms : edit(id, "POST", f[1], f[2])
    \/ \E id \in PostIds : edit(id, "GET", "", "")
    \/ \E id \in PostIds : delete(id)
    \/ send_request(2, 0)

SpecPosts == Init /\ [][PostNext]_vars

\* the posts of two users, edited and deleted by several threads at once
PostRaceNext ==
    \/ \E u \in Usernames : register("POST", u, "pw1", "s1")
    \/ \E u \in Usernames : login("POST", u, "pw1")
    \/ logout
    \/ \E f \in PostForms : create("POST", f[1], f[2], 0)
    \/ \E id \in PostIds, f \in PostForms : edit_begin(id, f[1], f[2])
    \/ \E i \in 1..MaxInflight : edit_commit(i)
    \/ \E id \in PostIds : delete_begin(id)
    \/ \E i \in 1..MaxInflight : delete_commit(i)

SpecPostsRace == Init /\ [][PostRaceNext]_vars

\* /friends read by several threads while requests are sent and decided
FriendsReadNext ==
    \/ \E u \in Usernames : register("POST", u, "pw1", "s1")
    \/ \E u \in Usernames : login("POST", u, "pw1")
    \/ logout
    \/ \E id \in 1..2 : send_request(id, 0)
    \/ \E id \in 1..2 : accept_request(id, 0)
    \/ reject_request(1, 0)
    \/ friends_begin
    \/ \E i \in 1..MaxInflight : friends_step(i)

SpecFriendsRead == Init /\ [][FriendsReadNext]_vars

\* /search read by several threads while requests are sent
SearchReadNext ==
    \/ \E u \in Usernames : register("POST", u, "pw1", "s1")
    \/ \E u \in Usernames : login("POST", u, "pw1")
    \/ logout
    \/ \E id \in 1..2 : send_request(id, 0)
    \/ \E q \in {<<"b">>, <<"_">>} : search_users_begin(q)
    \/ \E i \in 1..MaxInflight : search_users_step(i)

SpecSearchRead == Init /\ [][SearchReadNext]_vars

\* /profile read by several threads while requests are sent and accepted
ProfileReadNext ==
    \/ \E u \in Usernames : register("POST", u, "pw1", "s1")
    \/ \E u \in Usernames : login("POST", u, "pw1")
    \/ logout
    \/ \E id \in 1..2 : send_request(id, 0)
    \/ \E id \in 1..2 : accept_request(id, 0)
    \/ profile_begin
    \/ \E i \in 1..MaxInflight : profile_step(i)

SpecProfileRead == Init /\ [][ProfileReadNext]_vars

\* the profile of one user, edited by several threads
EditProfileNext ==
    \/ register("POST", <<"b">>, "pw1", "s1")
    \/ login("POST", <<"b">>, "pw1")
    \/ logout
    \/ profile
    \/ edit_profile_begin("hello", <<".", ".", "/", "m", ".", "p">>, <<>>)
    \/ edit_profile_begin("y", <<>>, <<"w", "\f", "p">>)
    \/ edit_profile_begin("y", <<".", ".">>, <<>>)
    \/ \E i \in 1..MaxInflight : edit_profile_commit(i)

SpecEditProfile == Init /\ [][EditProfileNext]_vars

\* every route that acts for the user of the session, called with and
\* without a session, on the first post and the first friend request
RoutesNext ==
    \/ \E u \in Usernames : register("POST", u, "pw1", "s1")
    \/ \E u \in Usernames : login("POST", u, "pw1")
    \/ logout
    \/ home
    \/ create("POST", "t1", "c1", 0)
    \/ edit(1, "POST", "t2", "c2")
    \/ delete(1)
    \/ send_request(2, 0)
    \/ accept_request(1, 0)
    \/ reject_request(1, 0)
    \/ friends
    \/ friend_requests_page
    \/ search_users("POST", <<>>)
    \/ profile
    \/ \E photo \in Filenames : edit_profile("POST", "hello", photo, <<>>)

SpecRoutes == Init /\ [][RoutesNext]_vars

\* the friend engine served by several threads at once: requests to user 2,
\* decided while others are in flight
FriendRaceNext ==
    \/ \E u \in Usernames : register("POST", u, "pw1", "s1")
    \/ \E u \in Usernames : login("POST", u, "pw1")
    \/ logout
    \/ send_request_begin(2)
    \/ \E i \in 1..MaxInflight : send_request_commit(i, 0)
    \/ accept_request_begin(1)
    \/ \E i \in 1..MaxInflight : accept_request_commit(i, 0)
    \/ reject_request_begin(1)
    \/ \E i \in 1..MaxInflight : reject_request_commit(i, 0)

SpecFriendRace == Init /\ [][FriendRaceNext]_vars

(***************************************************************************)
(* Properties of the friend engine (Spec).                                 *)
(***************************************************************************)
UserIdsOf(rows) == { rows[i].id : i \in 1..Len(rows) }

IsPrefix(short, long) ==
    Len(short) <= Len(long) /\ SubSeq(long, 1, Len(short)) = short

\* C1: a send_request by A to B that finds a FriendRequest row with sender A
\* and receiver B, whatever its status, writes no FriendRequest row and no
\* Notification; so no two rows have the same sender and the same receiver.
C1_NoSecondRequest ==
    /\ [][ (/\ last'.route = "send_request"
            /\ last'.user # None
            /\ existing_request(last'.user, last'.arg))
           => UNCHANGED <<friend_requests, notifications>> ]_vars
    /\ [](\A i, j \in 1..Len(friend_requests) :
            (/\ friend_requests[i].sender_id = friend_requests[j].sender_id
             /\ friend_requests[i].receiver_id = friend_requests[j].receiver_id) => i = j)

\* a second send_request for a pair whose request was already decided
C1_Witness ==
    /\ last.route = "send_request"
    /\ last.resp.flash = "Friend request already sent."
    /\ \E i \in 1..Len(friend_requests) :
          /\ friend_requests[i].sender_id = last.user
          /\ friend_requests[i].receiver_id = last.arg
          /\ friend_requests[i].status # "pending"

\* C2: accept_request / reject_request on request r writes (a status, a
\* Notification) only when the session's user id is r's receiver; from any
\* other user or without a session, every FriendRequest row and the
\* Notification table stay as they are.
C2_OnlyReceiverDecides ==
    [][ /\ (/\ last'.route \in {"accept_request", "reject_request"}
            /\ Has(friend_requests, last'.arg)
            /\ Get(friend_requests, last'.arg).receiver_id # last'.user)
           => UNCHANGED <<friend_requests, notifications>>
        /\ \A i \in 1..Len(friend_requests) :
              (i <= Len(friend_requests') /\ friend_requests'[i] # friend_requests[i])
              => /\ last'.route \in {"accept_request", "reject_request"}
                 /\ last'.arg = friend_requests[i].id
                 /\ last'.user = friend_requests[i].receiver_id ]_vars

\* the sender of a request has just tried to accept it
C2_Witness ==
    /\ last.route = "accept_request"
    /\ Has(friend_requests, last.arg)
    /\ Get(friend_requests, last.arg).sender_id = last.user
    /\ Get(friend_requests, last.arg).receiver_id # last.user
    /\ Get(friend_requests, last.arg).status = "pending"

\* C3 as claimed: once a request is accepted or rejected its status never
\* changes again.
C3_DecidedIsFinal ==
    [][ \A i \in 1..Len(friend_requests) :
          friend_requests[i].status # "pending"
          => (i <= Len(friend_requests')
              /\ friend_requests'[i].status = friend_requests[i].status) ]_vars

\* C3 as amended: no row is removed, a status only ever changes to accepted
\* or rejected, and a decided request never goes back to pending (it may
\* still go from accepted to rejected and from rejected to accepted).
C3_NeverBackToPending ==
    [][ /\ Len(friend_requests') >= Len(friend_requests)
        /\ \A i \in 1..Len(friend_requests) :
              /\ friend_requests'[i].status # friend_requests[i].status
                 => friend_requests'[i].status \in {"accepted", "rejected"}
              /\ friend_requests[i].status # "pending"
                 => friend_requests'[i].status # "pending" ]_vars

\* a request that was rejected and is accepted now
C3_Witness ==
    /\ last.route = "accept_request"
    /\ last.resp.flash = "Friend request accepted."
    /\ \E k \in 1..Len(notifications) :
          /\ k < Len(notifications)
          /\ notifications[k].user_id = Get(friend_requests, last.arg).sender_id
          /\ notifications[k].message =
                Get(users, last.user).username \o <<" rejected your friend request.">>

\* C4: when the receiver accepts a pending request r, r becomes accepted and
\* exactly one Notification, to r's sender, is appended; when the receiver
\* then rejects the accepted r, r becomes rejected and one more Notification
\* to r's sender is appended.
C4_AcceptThenReject ==
    [][ \A status \in {"accepted", "rejected"} :
          LET route == IF status = "accepted" THEN "accept_request" ELSE "reject_request"
              before == IF status = "accepted" THEN "pending" ELSE "accepted"
          IN (/\ last'.route = route
              /\ Has(friend_requests, last'.arg)
              /\ Get(friend_requests, last'.arg).receiver_id = last'.user
              /\ Get(friend_requests, last'.arg).status = before)
             => /\ Len(friend_requests') = Len(friend_requests)
                /\ \A i \in 1..Len(friend_requests) :
                      friend_requests'[i] =
                         IF friend_requests[i].id = last'.arg
                         THEN [id |-> friend_requests[i].id,
                               sender_id |-> friend_requests[i].sender_id,
                               receiver_id |-> friend_requests[i].receiver_id,
                               status |-> status]
                         ELSE friend_requests[i]
                /\ Len(notifications') = Len(notifications) + 1
                /\ IsPrefix(notifications, notifications')
                /\ notifications'[Len(notifications')].user_id =
                      Get(friend_requests, last'.arg).sender_id ]_vars

\* request, acceptance and rejection of one request have left their three
\* notifications, and the request is rejected
C4_Witness ==
    /\ last.route = "reject_request"
    /\ Has(friend_requests, last.arg)
    /\ Get(friend_requests, last.arg).status = "rejected"
    /\ Len(notifications) = 3
    /\ notifications[2].user_id = Get(friend_requests, last.arg).sender_id
    /\ notifications[2].message =
          Get(users, last.user).username \o <<" accepted your friend request!">>
    /\ notifications[3].user_id = Get(friend_requests, last.arg).sender_id
    /\ notifications[3].message =
          Get(users, last.user).username \o <<" rejected your friend request.">>

\* the ids of the users /friends lists for this user
FriendList(user_id) == UserIdsOf(friends_of(user_id))

\* C7: B is in the list /friends computes for A exactly when A is in the
\* list it computes for B, and an accepted request puts its sender and its
\* receiver in each other's list.
C7_FriendsSymmetric ==
    /\ \A a, b \in UserIdsOf(users) : (b \in FriendList(a)) <=> (a \in FriendList(b))
    /\ \A i \in 1..Len(friend_requests) :
          friend_requests[i].status = "accepted"
          => /\ friend_requests[i].receiver_id \in FriendList(friend_requests[i].sender_id)
             /\ friend_requests[i].sender_id \in FriendList(friend_requests[i].receiver_id)

\* B has accepted the request of another user A
C7_Witness ==
    /\ last.route = "accept_request"
    /\ last.resp.flash = "Friend request accepted."
    /\ Get(friend_requests, last.arg).sender_id # last.user
    /\ Get(friend_requests, last.arg).sender_id \in FriendList(last.user)

\* query occurs in username as a run of characters (letters compared
\* without regard to case, as the database compares them)
Substring(query, username) ==
    \E k \in 0..(Len(username) - Len(query)) :
        \A n \in 1..Len(query) : Fold(username[k + n]) = Fold(query[n])

\* some FriendRequest row has one of the two users as sender and the other
\* as receiver
Touching(a, b) ==
    \E i \in 1..Len(friend_requests) :
        \/ friend_requests[i].sender_id = a /\ friend_requests[i].receiver_id = b
        \/ friend_requests[i].sender_id = b /\ friend_requests[i].receiver_id = a

\* C8: the search result for U holds exactly the users whose username
\* contains the query, without U and without every user that a
\* FriendRequest row of any status connects to U.
C8_SearchIsSubstring ==
    \A u \in UserIdsOf(users) : \A q \in Queries :
        UserIdsOf(search_results(u, q)) =
            { v \in UserIdsOf(users) :
                /\ Substring(q, Get(users, v).username)
                /\ v # u
                /\ ~Touching(u, v) }

(***************************************************************************)
(* Properties of registration and login (SpecRace, SpecAuth).              *)
(***************************************************************************)
\* C5: no two User rows have the same username; a register call that
\* reaches its commit when a row has its username writes nothing, one whose
\* username is fresh appends exactly one row with that username; nothing
\* else changes the User table.  Registrations are interleaved between their
\* query and their commit.
C5_UniqueUsernames ==
    /\ [](\A i, j \in 1..Len(users) : users[i].username = users[j].username => i = j)
    /\ [][ /\ (last'.route = "register" /\ last'.method = "POST")
              => IF HasUsername(last'.form[1])
                 THEN users' = users
                 ELSE /\ Len(users') = Len(users) + 1
                      /\ IsPrefix(users, users')
                      /\ users'[Len(users')].username = last'.form[1]
                      /\ users'[Len(users')].id \notin UserIdsOf(users)
           /\ users' # users => (last'.route = "register" /\ last'.resp.to = "login") ]_vars

\* of two interleaved registrations of one username the second was refused
C5_Witness ==
    /\ last.route = "register"
    /\ last.resp = abort("500")
    /\ HasUsername(last.form[1])

\* the user registered with this password
RegisteredWith(user, password) ==
    \E salt \in Salts : user.password = generate_password_hash(password, salt)

\* C6: login(username, password) sets the session's user id to the id of
\* the user registered under the username exactly when the password is the
\* one that user registered with; otherwise the session's user id stays as
\* it was.
C6_LoginBindsUser ==
    [][ last'.route = "login"
        => IF /\ last'.method = "POST"
              /\ HasUsername(last'.form[1])
              /\ RegisteredWith(UserByName(last'.form[1]), last'.form[2])
           THEN /\ session' = UserByName(last'.form[1]).id
                /\ last'.resp = redirect("home", "Login successful.")
           ELSE /\ session' = session
                /\ last'.resp.kind = "render" ]_vars

\* a logged-in user has just given a wrong password for a registered name
C6_Witness ==
    /\ last.route = "login"
    /\ last.resp.flash = "Invalid credentials."
    /\ HasUsername(last.form[1])
    /\ session # None

(***************************************************************************)
(* Properties of the posts (SpecPostsRace).                                *)
(***************************************************************************)
\* C9: a Post row disappears only in a delete request for it whose session
\* user id is the post's owner; delete by another user or without a session
\* leaves the Post table as it is and redirects to home.  The request is
\* taken with the user its session carried.
C9_OnlyOwnerDeletes ==
    [][ /\ \A i \in 1..Len(posts) :
              ~Has(posts', posts[i].id)
              => /\ last'.route = "delete"
                 /\ last'.arg = posts[i].id
                 /\ last'.user = posts[i].user_id
        /\ (/\ last'.route = "delete"
            /\ Has(posts, last'.arg)
            /\ Get(posts, last'.arg).user_id # last'.user)
           => /\ posts' = posts
              /\ last'.resp = redirect("home", "") ]_vars

\* C10: an edit POST on post P by its owner replaces P's title and content by
\* the submitted ones and leaves P's id, owner and timestamp, every other
\* Post and all User, FriendRequest and Notification rows as they are; an
\* edit by anyone else changes no table and no session.
C10_EditFrame ==
    [][ last'.route = "edit"
        => /\ UNCHANGED <<users, friend_requests, notifications, session>>
           /\ IF /\ Has(posts, last'.arg)
                 /\ Get(posts, last'.arg).user_id = last'.user
                 /\ last'.method = "POST"
              THEN /\ Len(posts') = Len(posts)
                   /\ \A i \in 1..Len(posts) :
                         posts'[i] =
                            IF posts[i].id = last'.arg
                            THEN [id |-> posts[i].id,
                                  title |-> last'.form[1],
                                  content |-> last'.form[2],
                                  user_id |-> posts[i].user_id,
                                  timestamp |-> posts[i].timestamp]
                            ELSE posts[i]
              ELSE posts' = posts ]_vars

(***************************************************************************)
(* Further properties of the friend engine (Spec).                         *)
(***************************************************************************)
\* C12: the sender id and the receiver id of every FriendRequest row are ids
\* of User rows.
C12_PartiesExist ==
    \A i \in 1..Len(friend_requests) :
        /\ friend_requests[i].sender_id \in UserIdsOf(users)
        /\ friend_requests[i].receiver_id \in UserIdsOf(users)

\* the table holds a FriendRequest row from sender_id to receiver_id
HasRow(sender_id, receiver_id) ==
    \E i \in 1..Len(friend_requests) :
        /\ friend_requests[i].sender_id = sender_id
        /\ friend_requests[i].receiver_id = receiver_id

\* C13: when a row from A to B exists, in any status, and none from B to A,
\* a send_request by B to A appends the pending row (B, A) and one
\* Notification to A; the FriendRequest rows it found stay as they are.
C13_ReverseRequestPasses ==
    [][ (/\ last'.route = "send_request"
         /\ last'.user # None
         /\ HasRow(last'.arg, last'.user)
         /\ ~HasRow(last'.user, last'.arg))
        => /\ Len(friend_requests') = Len(friend_requests) + 1
           /\ IsPrefix(friend_requests, friend_requests')
           /\ friend_requests'[Len(friend_requests')].sender_id = last'.user
           /\ friend_requests'[Len(friend_requests')].receiver_id = last'.arg
           /\ friend_requests'[Len(friend_requests')].status = "pending"
           /\ Len(notifications') = Len(notifications) + 1
           /\ IsPrefix(notifications, notifications')
           /\ notifications'[Len(notifications')].user_id = last'.arg
           /\ last'.resp = redirect("search_users", "Friend request sent.") ]_vars

\* B has just sent a request to A, whose own request to B was decided before
C13_Witness ==
    /\ last.route = "send_request"
    /\ last.resp.flash = "Friend request sent."
    /\ last.arg # last.user
    /\ \E i, j \in 1..Len(friend_requests) :
          /\ friend_requests[i].sender_id = last.arg
          /\ friend_requests[i].receiver_id = last.user
          /\ friend_requests[i].status # "pending"
          /\ friend_requests[j].sender_id = last.user
          /\ friend_requests[j].receiver_id = last.arg
          /\ i < j

\* C14: no Notification row is ever removed or changed, and a row is added
\* only by a send_request that creates a FriendRequest row (to its receiver)
\* and by an accept_request or reject_request of the request's receiver (to
\* its sender), one row at a time.
C14_NotificationsAppendOnly ==
    [][ /\ IsPrefix(notifications, notifications')
        /\ Len(notifications') <= Len(notifications) + 1
        /\ notifications' # notifications
           => LET note == notifications'[Len(notifications')]
              IN \/ /\ last'.route = "send_request"
                    /\ Len(friend_requests') = Len(friend_requests) + 1
                    /\ friend_requests'[Len(friend_requests')].sender_id = last'.user
                    /\ friend_requests'[Len(friend_requests')].receiver_id = last'.arg
                    /\ note.user_id = last'.arg
                 \/ /\ last'.route \in {"accept_request", "reject_request"}
                    /\ Has(friend_requests, last'.arg)
                    /\ Get(friend_requests, last'.arg).receiver_id = last'.user
                    /\ note.user_id = Get(friend_requests, last'.arg).sender_id ]_vars

\* the table holds the notifications of a request, of its acceptance and of
\* its rejection, each still as it was written
C14_Witness ==
    /\ Len(notifications) = 3
    /\ notifications[1].message[Len(notifications[1].message)] = " sent you a friend request!"
    /\ notifications[2].message[Len(notifications[2].message)] = " accepted your friend request!"
    /\ notifications[3].message[Len(notifications[3].message)] = " rejected your friend request."
    /\ notifications[1].user_id # notifications[2].user_id
    /\ notifications[2].user_id = notifications[3].user_id
    /\ \A k \in 1..3 : notifications[k].id = k

\* C18: friends_count of U equals the number of users /friends lists for U.
C18_CountIsListLength ==
    \A u \in UserIdsOf(users) : friends_count(u) = Len(friends_of(u))

\* C19: no FriendRequest row has its sender as receiver, so no user is in
\* their own friends list or has a pending request from themselves.
C19_NoSelfRequest ==
    /\ \A i \in 1..Len(friend_requests) :
          friend_requests[i].sender_id # friend_requests[i].receiver_id
    /\ \A u \in UserIdsOf(users) :
          /\ u \notin FriendList(u)
          /\ \A k \in 1..Len(pending_for(u)) : pending_for(u)[k].sender_id # u

(***************************************************************************)
(* Properties of the routes called without a session (SpecRoutes).         *)
(***************************************************************************)
ProtectedRoutes ==
    {"home", "create", "edit", "delete", "send_request", "accept_request",
     "reject_request", "friends", "friend_requests", "search_users", "profile",
     "edit_profile"}

\* C11 as claimed: on every protected route a request without a user id in
\* the session returns the redirect to login and writes nothing.
C11_GuestsSentToLogin ==
    [][ (last'.route \in ProtectedRoutes /\ last'.user = None)
        => /\ last'.resp = redirect("login", "")
           /\ UNCHANGED <<users, posts, friend_requests, notifications, session>> ]_vars

\* C11 as amended: such a request writes nothing on any protected route; it
\* returns the redirect to login on the routes that test the session, on
\* edit and delete 404 for a missing post and else the redirect to home, on
\* accept_request and reject_request 404 for a missing request and else the
\* redirect to friend_requests.
C11_GuestsWriteNothing ==
    [][ (last'.route \in ProtectedRoutes /\ last'.user = None)
        => /\ UNCHANGED <<users, posts, friend_requests, notifications, session>>
           /\ last'.resp =
                 IF last'.route \in {"edit", "delete"}
                 THEN IF Has(posts, last'.arg) THEN redirect("home", "") ELSE abort("404")
                 ELSE IF last'.route \in {"accept_request", "reject_request"}
                      THEN IF Has(friend_requests, last'.arg)
                           THEN redirect("friend_requests", "")
                           ELSE abort("404")
                      ELSE redirect("login", "") ]_vars

\* delete has just been asked without a session for a post that exists, while
\* a friend request is pending
C11_Witness ==
    /\ last.route = "delete"
    /\ last.user = None
    /\ Has(posts, last.arg)
    /\ last.resp = redirect("home", "")
    /\ \E i \in 1..Len(friend_requests) : friend_requests[i].status = "pending"

(***************************************************************************)
(* Properties of the friend engine served by several threads               *)
(* (SpecFriendRace).                                                       *)
(***************************************************************************)
\* the text of the Notification that goes with a status
NoteText(status) ==
    IF status = "accepted" THEN " accepted your friend request!"
    ELSE IF status = "rejected" THEN " rejected your friend request."
    ELSE " sent you a friend request!"

\* n is the Notification to user_id that names the user from_id with this text
IsNote(n, user_id, from_id, text) ==
    /\ n.user_id = user_id
    /\ Has(users, from_id)
    /\ n.message = Get(users, from_id).username \o <<text>>

\* C15: the writes of a handler become visible in one step: a step that
\* adds a FriendRequest row adds the Notification to its receiver, a step that
\* changes a status adds the Notification to the sender, and a step that adds
\* a Notification adds the row or is the accept or reject it tells of.
C15_WritesTogether ==
    [][ /\ Len(friend_requests') # Len(friend_requests)
            => /\ Len(friend_requests') = Len(friend_requests) + 1
               /\ SubSeq(friend_requests', 1, Len(friend_requests)) = friend_requests
               /\ Len(notifications') = Len(notifications) + 1
               /\ SubSeq(notifications', 1, Len(notifications)) = notifications
               /\ IsNote(notifications'[Len(notifications')],
                         friend_requests'[Len(friend_requests')].receiver_id,
                         friend_requests'[Len(friend_requests')].sender_id,
                         NoteText("pending"))
        /\ \A i \in 1..Len(friend_requests) :
              (Len(friend_requests') = Len(friend_requests)
               /\ friend_requests'[i].status # friend_requests[i].status)
                  => /\ Len(notifications') = Len(notifications) + 1
                     /\ SubSeq(notifications', 1, Len(notifications)) = notifications
                     /\ IsNote(notifications'[Len(notifications')],
                               friend_requests[i].sender_id,
                               friend_requests[i].receiver_id,
                               NoteText(friend_requests'[i].status))
        /\ notifications' # notifications
            => /\ Len(notifications') = Len(notifications) + 1
               /\ \/ /\ Len(friend_requests') = Len(friend_requests) + 1
                     /\ IsNote(notifications'[Len(notifications')],
                               friend_requests'[Len(friend_requests')].receiver_id,
                               friend_requests'[Len(friend_requests')].sender_id,
                               NoteText("pending"))
                  \/ /\ Len(friend_requests') = Len(friend_requests)
                     /\ last'.route \in {"accept_request", "reject_request"}
                     /\ \E i \in 1..Len(friend_requests) :
                           /\ friend_requests[i].id = last'.arg
                           /\ IsNote(notifications'[Len(notifications')],
                                     friend_requests[i].sender_id,
                                     friend_requests[i].receiver_id,
                                     IF last'.route = "accept_request"
                                     THEN NoteText("accepted")
                                     ELSE NoteText("rejected")) ]_vars

\* a reject has just committed while another request is still in flight: the
\* row is rejected and the sender's Notification is the newest one
C15_Witness ==
    /\ last.route = "reject_request"
    /\ last.resp = redirect("friend_requests", "Friend request rejected.")
    /\ Len(inflight) > 0
    /\ Has(friend_requests, last.arg)
    /\ Get(friend_requests, last.arg).status = "rejected"
    /\ Get(friend_requests, last.arg).sender_id # Get(friend_requests, last.arg).receiver_id
    /\ IsNote(notifications[Len(notifications)],
              Get(friend_requests, last.arg).sender_id,
              Get(friend_requests, last.arg).receiver_id, NoteText("rejected"))

\* the Notifications that tell the sender of fr that it was accepted
AcceptedNotes(rows, fr) ==
    { k \in 1..Len(rows) : IsNote(rows[k], fr.sender_id, fr.receiver_id, NoteText("accepted")) }

\* C16: an accept_request that loaded the request while it was pending, and
\* commits after another accept_request on it has committed, has passed the
\* receiver test and appends its own Notification to the sender: the request
\* stays accepted and the sender then has two Notifications of the acceptance.
C16_BothAcceptsNotify ==
    [][ \A i \in 1..Len(inflight) :
            (/\ inflight[i].route = "accept_request"
             /\ inflight[i].fr.status = "pending"
             /\ Get(friend_requests, inflight[i].arg).status = "accepted"
             /\ inflight' = Remove(inflight, i))
            => /\ is_receiver(inflight[i].fr, inflight[i].user)
               /\ friend_requests' = friend_requests
               /\ Len(notifications') = Len(notifications) + 1
               /\ SubSeq(notifications', 1, Len(notifications)) = notifications
               /\ IsNote(notifications'[Len(notifications')], inflight[i].fr.sender_id,
                         inflight[i].fr.receiver_id, NoteText("accepted"))
               /\ Cardinality(AcceptedNotes(notifications', inflight[i].fr)) >= 2
               /\ last'.resp = redirect("friend_requests", "Friend request accepted.") ]_vars

\* the first of two accepts of a pending request has committed, the second
\* one, which loaded the request while it was pending, is still in flight
C16_Witness ==
    \E i \in 1..Len(inflight) :
        /\ inflight[i].route = "accept_request"
        /\ inflight[i].fr.status = "pending"
        /\ inflight[i].fr.sender_id # inflight[i].fr.receiver_id
        /\ Get(friend_requests, inflight[i].arg).status = "accepted"
        /\ last.route = "accept_request"
        /\ last.arg = inflight[i].arg
        /\ last.resp = redirect("friend_requests", "Friend request accepted.")
        /\ Cardinality(AcceptedNotes(notifications, inflight[i].fr)) = 1
        /\ Len(notifications) < MaxRaceNotes

\* C17: also when two send_request of one sender to one receiver interleave
\* between the existence check and the commit, at most one FriendRequest row
\* has this sender and this receiver.
C17_OneRowPerPair ==
    \A i, j \in 1..Len(friend_requests) :
        (/\ friend_requests[i].sender_id = friend_requests[j].sender_id
         /\ friend_requests[i].receiver_id = friend_requests[j].receiver_id)
            => i = j
====
